---- MODULE Spec2Model ----
(***************************************************************************)
(* MatchupHelper frontend (src/src/app.js): the matchup detail modal, its   *)
(* tag and version handlers, saveMatchup's change detection, and the       *)
(* comma-separated build-list parsing and rendering.                       *)
(*                                                                         *)
(* Strings that the code converts (tag input, build-list input) are        *)
(* sequences of one-character strings; notes are never converted and are   *)
(* plain strings.  The Tauri backend (get_matchup, get_matchups,           *)
(* create_matchup, update_matchup, delete_matchup) is not part of the      *)
(* frontend sources; it is modelled from the specification's Matchup Store *)
(* interface (the Store* definitions).                                     *)
(***************************************************************************)
EXTENDS Integers, Sequences, FiniteSets, TLC

(* ------------------------------ bounds --------------------------------- *)

\* Matchup ids the store can hand out.
MaxMatchups == 1

\* Versions the store can create in one run (seed versions included).
MaxClock == 2

\* Tags one version can carry in the tag-editing specification.
MaxTags == 2

\* Length of the raw text typed into the tag input (tag-editing specification).
MaxTagLen == 4

\* Length of the raw text given to parseCommaSeparated (parsing specification).
MaxRawLen == 5

\* Length of the tag lists given to the tag filter (parsing specification).
MaxPureTags == 3

\* get_matchups invocations in flight at once (list-loading specification).
MaxPending == 2

(* ------------------------------ strings -------------------------------- *)

\* JavaScript white space, as far as the alphabets below contain it.
IsSpace(c) ==
    c \in {" ", "\t", "\n"}

SeqsUpTo(S, n) ==
    UNION {[1..k -> S] : k \in 0..n}

\* String.prototype.trim
RECURSIVE TrimStart(_)
TrimStart(s) ==
    IF s = <<>> THEN <<>>
    ELSE IF IsSpace(Head(s)) THEN TrimStart(Tail(s))
    ELSE s

RECURSIVE TrimEnd(_)
TrimEnd(s) ==
    IF s = <<>> THEN <<>>
    ELSE IF IsSpace(s[Len(s)]) THEN TrimEnd(SubSeq(s, 1, Len(s) - 1))
    ELSE s

Trim(s) ==
    TrimEnd(TrimStart(s))

\* String.prototype.toLowerCase, one character
LowerChar(c) ==
    CASE c = "A" -> "a"
      [] c = "B" -> "b"
      [] OTHER -> c

ToLowerCase(s) ==
    [i \in 1..Len(s) |-> LowerChar(s[i])]

\* s.replace(/\s/g, '-'): every white-space character becomes a hyphen
ReplaceEachSpace(s) ==
    [i \in 1..Len(s) |-> IF IsSpace(s[i]) THEN "-" ELSE s[i]]

\* s.replace(/\s+/g, '-'): every maximal run of white space becomes one hyphen
RECURSIVE ReplaceSpaceRuns(_)
ReplaceSpaceRuns(s) ==
    IF s = <<>> THEN <<>>
    ELSE IF IsSpace(Head(s)) THEN <<"-">> \o ReplaceSpaceRuns(TrimStart(s))
    ELSE <<Head(s)>> \o ReplaceSpaceRuns(Tail(s))

\* The tag handleAddTag derives from the tag input's value.
NormalizeTag(raw) ==
    ReplaceSpaceRuns(ToLowerCase(Trim(raw)))

\* String.prototype.split(','): the pieces between the commas, at least one
RECURSIVE SplitComma(_)
SplitComma(s) ==
    IF s = <<>> THEN << <<>> >>
    ELSE IF Head(s) = "," THEN << <<>> >> \o SplitComma(Tail(s))
    ELSE LET rest == SplitComma(Tail(s))
         IN  << <<Head(s)>> \o Head(rest) >> \o Tail(rest)

MapTrim(pieces) ==
    [i \in 1..Len(pieces) |-> Trim(pieces[i])]

NonEmpty(piece) ==
    Len(piece) > 0

FilterNonEmpty(pieces) ==
    SelectSeq(pieces, NonEmpty)

\* parseCommaSeparated(value)
ParseNoTrim(value) ==
    IF value = <<>> \/ Trim(value) = <<>> THEN <<>>
    ELSE FilterNonEmpty(SplitComma(value))

ParseKeepEmpty(value) ==
    IF value = <<>> \/ Trim(value) = <<>> THEN <<>>
    ELSE MapTrim(SplitComma(value))

parseCommaSeparated(value) ==
    IF value = <<>> \/ Trim(value) = <<>> THEN <<>>
    ELSE FilterNonEmpty(MapTrim(SplitComma(value)))

\* Array.prototype.join(sep)
RECURSIVE Join(_, _)
Join(list, sep) ==
    IF list = <<>> THEN <<>>
    ELSE IF Len(list) = 1 THEN list[1]
    ELSE list[1] \o sep \o Join(Tail(list), sep)

\* list.join(', ') || ''   (the text put into a build input)
RenderSpaceOnly(list) ==
    Join(list, <<" ">>)

RenderList(list) ==
    LET text == Join(list, <<",", " ">>)
    IN  IF text = <<>> THEN <<>> ELSE text

\* tags.filter(t => t !== tag)
DropFirstTag(tags, tag) ==
    IF \E i \in 1..Len(tags) : tags[i] = tag
    THEN LET i == CHOOSE k \in 1..Len(tags) :
                      tags[k] = tag /\ \A j \in 1..(k - 1) : tags[j] # tag
         IN  SubSeq(tags, 1, i - 1) \o SubSeq(tags, i + 1, Len(tags))
    ELSE tags

FilterTag(tags, tag) ==
    LET Other(t) == t # tag
    IN  SelectSeq(tags, Other)

\* tags.includes(tag)
Includes(tags, tag) ==
    \E i \in 1..Len(tags) : tags[i] = tag

(* ------------------------------ state ---------------------------------- *)

VARIABLES
    store,              \* backend: matchup id -> Matchup record, or Null
    clock,              \* backend: number of versions created so far ("now")
    matchups,           \* state.matchups
    currentMatchup,     \* state.currentMatchup
    modalMatchupHidden, \* elements.modalMatchup has class "hidden"
    modalNewHidden,     \* elements.modalNewMatchup has class "hidden"
    detailNotes,        \* elements.detailNotes.value
    detailRunes,        \* elements.detailRunes.value
    detailSummoners,    \* elements.detailSummoners.value
    detailItems,        \* elements.detailItems.value
    detailTags,         \* the tags rendered in elements.detailTags
    detailVersion,      \* elements.detailVersion.value (0: no option selected)
    inputNewTag,        \* elements.inputNewTag.value
    opened,             \* history: the matchup get_matchup returned at the last open
    untouched,          \* history: nothing was typed, tagged or browsed since the open
    lastOp,             \* history: the handler that ran last, and its input
    calls,              \* history: the backend commands the last handler invoked
    pure,               \* the parsing specification's input and results
    filters,            \* state.filters
    pending             \* the get_matchups invocations loadMatchups awaits

vars ==
    <<store, clock, matchups, currentMatchup, modalMatchupHidden, modalNewHidden,
      detailNotes, detailRunes, detailSummoners, detailItems, detailTags,
      detailVersion, inputNewTag, opened, untouched, lastOp, calls, pure,
      filters, pending>>

loadVars ==
    <<filters, pending>>

detailVars ==
    <<detailNotes, detailRunes, detailSummoners, detailItems, detailTags, detailVersion>>

backendVars ==
    <<store, clock>>

Null ==
    [null |-> TRUE]

\* versions[i] for an index outside the array
Undefined ==
    [undefined |-> TRUE]

MatchupIds ==
    1..MaxMatchups

(* ------------------------------ inputs --------------------------------- *)

\* What the user types into the notes area.
NoteTexts ==
    {"", "n"}

\* What the user types into the runes input (the second one is not in the
\* form the modal renders).
RuneTexts ==
    {<<>>, <<"a", ",", "b">>}

SummonerTexts ==
    {<<>>, <<"a">>}

ItemTexts ==
    {<<>>, <<"b">>}

\* What the user types into the tag input of the session specification.
TagTexts ==
    {<<"A">>}

\* What the user types into the tag input of the tag-editing specification.
TagAlphabet ==
    {"A", " "}

TagInputs ==
    SeqsUpTo(TagAlphabet, MaxTagLen)

\* What the new-matchup modal's champion inputs hold when Create is clicked.
ChampionTexts ==
    {<<>>, <<" ">>, <<"G">>, <<" ", "G">>}

Roles ==
    {"top"}

(* ------------------------ backend (Matchup Store) ---------------------- *)

EmptyVersion(date) ==
    [notes |-> "", tags |-> <<>>, runes |-> <<>>, summoner_spells |-> <<>>,
     items |-> <<>>, date |-> date]

FreeIds ==
    {i \in MatchupIds : store[i] = Null}

\* create_matchup: the store assigns the id and seeds versions = [emptyVersion],
\* current_version = 1
StoreCreate(id, fields) ==
    [store EXCEPT ![id] =
        [id |-> id, my_champion |-> fields.my_champion,
         enemy_champion |-> fields.enemy_champion, role |-> fields.role,
         versions |-> <<EmptyVersion(clock + 1)>>, current_version |-> 1]]

\* update_matchup: a new version with the payload's fields and date = now is
\* appended and becomes the current version
StoreUpdate(id, update) ==
    LET m == store[id]
        v == [notes |-> update.notes, tags |-> update.tags, runes |-> update.runes,
              summoner_spells |-> update.summoner_spells, items |-> update.items,
              date |-> clock + 1]
    IN  [store EXCEPT ![id] =
            [m EXCEPT !.versions = Append(m.versions, v),
                      !.current_version = Len(m.versions) + 1]]

\* delete_matchup
StoreDelete(id) ==
    [store EXCEPT ![id] = Null]

\* get_matchups with a null filter: every stored matchup, by id
RECURSIVE ListFrom(_, _)
ListFrom(st, i) ==
    IF i > MaxMatchups THEN <<>>
    ELSE IF st[i] = Null THEN ListFrom(st, i + 1)
    ELSE <<st[i]>> \o ListFrom(st, i + 1)

StoreList(st) ==
    ListFrom(st, 1)

(* --------------------------- version lookup ---------------------------- *)

\* matchup.versions[n - 1], the index clamped into the array
VersionAtClamped(m, n) ==
    IF n < 1 THEN m.versions[1]
    ELSE IF n > Len(m.versions) THEN m.versions[Len(m.versions)]
    ELSE m.versions[n]

\* matchup.versions[n - 1]
VersionAt(m, n) ==
    IF n \in 1..Len(m.versions) THEN m.versions[n] ELSE Undefined

\* matchup.versions[matchup.current_version - 1]
IndexedVersion(m) ==
    VersionAt(m, m.current_version)

\* matchup.versions[matchup.current_version - 1] || matchup.versions[0]
ActiveVersion(m) ==
    IF IndexedVersion(m) # Undefined THEN IndexedVersion(m) ELSE VersionAt(m, 1)

\* version?.tags || []     version?.notes || ''     version?.runes?.join(', ') || ''
TagsOf(v) ==
    IF v = Undefined THEN <<>> ELSE v.tags

NotesOf(v) ==
    IF v = Undefined THEN "" ELSE v.notes

RunesTextOf(v) ==
    IF v = Undefined THEN <<>> ELSE RenderList(v.runes)

SummonersTextOf(v) ==
    IF v = Undefined THEN <<>> ELSE RenderList(v.summoner_spells)

ItemsTextOf(v) ==
    IF v = Undefined THEN <<>> ELSE RenderList(v.items)

\* The in-memory matchup with its current version's tags replaced.
WithTags(m, tags) ==
    [m EXCEPT !.versions[m.current_version].tags = tags]

NoArg ==
    [none |-> TRUE]

Op(name, arg) ==
    [name |-> name, arg |-> arg]

Call(cmd, arg) ==
    [cmd |-> cmd, arg |-> arg]

\* state.filters as the script sets it up; filters.tags is never assigned
\* and stays [].
NoFilters ==
    [myChampion |-> <<>>, enemyChampion |-> <<>>, role |-> "", search |-> <<>>]

(* ------------------------------ Init ----------------------------------- *)

PureIdle ==
    [op |-> "idle"]

Init ==
    /\ store = [i \in MatchupIds |-> Null]
    /\ clock = 0
    /\ matchups = <<>>
    /\ currentMatchup = Null
    /\ modalMatchupHidden = TRUE
    /\ modalNewHidden = TRUE
    /\ detailNotes = ""
    /\ detailRunes = <<>>
    /\ detailSummoners = <<>>
    /\ detailItems = <<>>
    /\ detailTags = <<>>
    /\ detailVersion = 0
    /\ inputNewTag = <<>>
    /\ opened = Null
    /\ untouched = FALSE
    /\ lastOp = Op("init", NoArg)
    /\ calls = <<>>
    /\ pure = PureIdle
    /\ filters = NoFilters
    /\ pending = <<>>

(* ------------------------- matchup detail modal ------------------------ *)

\* renderMatchups: the ids of the cards in the list
RenderedIds ==
    {matchups[i].id : i \in 1..Len(matchups)}

\* closeMatchupModal, as part of a handler
CloseDetail ==
    /\ modalMatchupHidden' = TRUE
    /\ currentMatchup' = Null
    /\ opened' = Null
    /\ untouched' = FALSE

\* openMatchupDetail(id): a click on a rendered card
OpenMatchupDetail(id) ==
    /\ id \in RenderedIds
    /\ store[id] # Null
    /\ LET matchup == store[id]
           currentVersion == ActiveVersion(matchup)
       IN  /\ currentMatchup' = matchup
           /\ detailTags' = TagsOf(currentVersion)
           /\ detailRunes' = RunesTextOf(currentVersion)
           /\ detailSummoners' = SummonersTextOf(currentVersion)
           /\ detailItems' = ItemsTextOf(currentVersion)
           /\ detailNotes' = NotesOf(currentVersion)
           /\ detailVersion' = matchup.current_version
           /\ opened' = matchup
    /\ modalMatchupHidden' = FALSE
    /\ untouched' = TRUE
    /\ lastOp' = Op("openMatchupDetail", [id |-> id])
    /\ calls' = <<Call("get_matchup", [id |-> id])>>
    /\ UNCHANGED <<store, clock, matchups, modalNewHidden, inputNewTag, pure, loadVars>>

\* closeMatchupModal: the close button, or a click on the modal's backdrop
CloseMatchupModal ==
    /\ modalMatchupHidden = FALSE
    /\ CloseDetail
    /\ lastOp' = Op("closeMatchupModal", NoArg)
    /\ calls' = <<>>
    /\ UNCHANGED <<store, clock, matchups, modalNewHidden, detailVars, inputNewTag, pure, loadVars>>

\* handleGlobalShortcuts, key Escape: closes every modal
HandleEscape ==
    /\ CloseDetail
    /\ modalNewHidden' = TRUE
    /\ lastOp' = Op("handleGlobalShortcuts", NoArg)
    /\ calls' = <<>>
    /\ UNCHANGED <<store, clock, matchups, detailVars, inputNewTag, pure, loadVars>>

\* The user types into the notes area or into one of the build inputs.
TypeNotes(text) ==
    /\ modalMatchupHidden = FALSE
    /\ text # detailNotes
    /\ detailNotes' = text
    /\ untouched' = FALSE
    /\ lastOp' = Op("input", NoArg)
    /\ UNCHANGED <<store, clock, matchups, currentMatchup, modalMatchupHidden,
                   modalNewHidden, detailRunes, detailSummoners, detailItems,
                   detailTags, detailVersion, inputNewTag, opened, calls, pure, loadVars>>

TypeRunes(text) ==
    /\ modalMatchupHidden = FALSE
    /\ text # detailRunes
    /\ detailRunes' = text
    /\ untouched' = FALSE
    /\ lastOp' = Op("input", NoArg)
    /\ UNCHANGED <<store, clock, matchups, currentMatchup, modalMatchupHidden,
                   modalNewHidden, detailNotes, detailSummoners, detailItems,
                   detailTags, detailVersion, inputNewTag, opened, calls, pure, loadVars>>

TypeSummoners(text) ==
    /\ modalMatchupHidden = FALSE
    /\ text # detailSummoners
    /\ detailSummoners' = text
    /\ untouched' = FALSE
    /\ lastOp' = Op("input", NoArg)
    /\ UNCHANGED <<store, clock, matchups, currentMatchup, modalMatchupHidden,
                   modalNewHidden, detailNotes, detailRunes, detailItems,
                   detailTags, detailVersion, inputNewTag, opened, calls, pure, loadVars>>

TypeItems(text) ==
    /\ modalMatchupHidden = FALSE
    /\ text # detailItems
    /\ detailItems' = text
    /\ untouched' = FALSE
    /\ lastOp' = Op("input", NoArg)
    /\ UNCHANGED <<store, clock, matchups, currentMatchup, modalMatchupHidden,
                   modalNewHidden, detailNotes, detailRunes, detailSummoners,
                   detailTags, detailVersion, inputNewTag, opened, calls, pure, loadVars>>

\* if (!tags.includes(tag)) tags.push(tag)
PushAlways(tags, tag) ==
    Append(tags, tag)

PushTag(tags, tag) ==
    IF ~Includes(tags, tag) THEN Append(tags, tag) ELSE tags

\* The user types into the tag input while it is blank.
TypeTag(raw) ==
    /\ modalMatchupHidden = FALSE
    /\ Trim(inputNewTag) = <<>>
    /\ raw # inputNewTag
    /\ inputNewTag' = raw
    /\ lastOp' = Op("input", NoArg)
    /\ UNCHANGED <<store, clock, matchups, currentMatchup, modalMatchupHidden,
                   modalNewHidden, detailVars, opened, untouched, calls, pure, loadVars>>

\* handleAddTag(e): key Enter in the tag input, whose value is raw
HandleAddTag(raw) ==
    /\ modalMatchupHidden = FALSE
    /\ LET currentVersion == IndexedVersion(currentMatchup)
           tag == NormalizeTag(raw)
       IN  IF Trim(raw) = <<>> \/ currentVersion = Undefined
           THEN /\ inputNewTag' = raw
                /\ UNCHANGED <<currentMatchup, detailTags, untouched>>
           ELSE /\ currentMatchup' = WithTags(currentMatchup, PushTag(currentVersion.tags, tag))
                /\ IF ~Includes(currentVersion.tags, tag)
                   THEN /\ detailTags' = PushTag(currentVersion.tags, tag)
                        /\ untouched' = FALSE
                   ELSE UNCHANGED <<detailTags, untouched>>
                /\ inputNewTag' = <<>>
    /\ lastOp' = Op("handleAddTag",
                    IF Trim(raw) = <<>> \/ IndexedVersion(currentMatchup) = Undefined
                    THEN [outcome |-> "ignored"]
                    ELSE IF Includes(IndexedVersion(currentMatchup).tags, NormalizeTag(raw))
                         THEN [outcome |-> "present"] ELSE [outcome |-> "pushed"])
    /\ calls' = <<>>
    /\ UNCHANGED <<store, clock, matchups, modalMatchupHidden, modalNewHidden,
                   detailNotes, detailRunes, detailSummoners, detailItems,
                   detailVersion, opened, pure, loadVars>>

\* removeTag(tag): a click on a rendered tag
RemoveTag(tag) ==
    /\ modalMatchupHidden = FALSE
    /\ Includes(detailTags, tag)
    /\ LET currentVersion == IndexedVersion(currentMatchup)
       IN  IF currentVersion = Undefined
           THEN UNCHANGED <<currentMatchup, detailTags>>
           ELSE /\ currentMatchup' = WithTags(currentMatchup, FilterTag(currentVersion.tags, tag))
                /\ detailTags' = FilterTag(currentVersion.tags, tag)
    /\ untouched' = FALSE
    /\ lastOp' = Op("removeTag", NoArg)
    /\ calls' = <<>>
    /\ UNCHANGED <<store, clock, matchups, modalMatchupHidden, modalNewHidden,
                   detailNotes, detailRunes, detailSummoners, detailItems,
                   detailVersion, inputNewTag, opened, pure, loadVars>>

\* What the version selector's change leaves in state.currentMatchup.
PointerFollowsSelector(m, versionNum) ==
    [m EXCEPT !.current_version = versionNum]

PointerZeroBased(m, versionNum) ==
    [m EXCEPT !.current_version = versionNum - 1]

PointerAfterBrowse(m, versionNum) ==
    m

\* The options openMatchupDetail puts into the version selector: v1 .. vN.
VersionOptions ==
    IF currentMatchup = Null THEN {} ELSE 1..Len(currentMatchup.versions)

\* handleVersionChange: the change event of the version selector, whose value
\* parses to versionNum.  The handler has no throw and no range check; every
\* read of the looked-up version is guarded (version?.), so it always runs to
\* its end.
HandleVersionChange(versionNum) ==
    /\ modalMatchupHidden = FALSE
    /\ versionNum # detailVersion
    /\ LET version == VersionAt(currentMatchup, versionNum)
       IN  /\ detailNotes' = NotesOf(version)
           /\ detailRunes' = RunesTextOf(version)
           /\ detailSummoners' = SummonersTextOf(version)
           /\ detailItems' = ItemsTextOf(version)
           /\ detailTags' = TagsOf(version)
    /\ detailVersion' = versionNum
    /\ currentMatchup' = PointerAfterBrowse(currentMatchup, versionNum)
    /\ untouched' = FALSE
    /\ lastOp' = Op("handleVersionChange",
                    [versionNum |-> versionNum, outcome |-> "completed"])
    /\ calls' = <<>>
    /\ UNCHANGED <<store, clock, matchups, modalMatchupHidden, modalNewHidden,
                   inputNewTag, opened, pure, loadVars>>

\* notesChanged || runesChanged || summonersChanged || itemsChanged
AnythingChanged(currentVersion, newNotes, newRunes, newSummoners, newItems) ==
    \/ newNotes # currentVersion.notes
    \/ newRunes # currentVersion.runes
    \/ newSummoners # currentVersion.summoner_spells
    \/ newItems # currentVersion.items

\* saveMatchup: the save button
SaveMatchup ==
    /\ modalMatchupHidden = FALSE
    /\ LET currentVersion == IndexedVersion(currentMatchup)
           newNotes == detailNotes
           newRunes == parseCommaSeparated(detailRunes)
           newSummoners == parseCommaSeparated(detailSummoners)
           newItems == parseCommaSeparated(detailItems)
           update == [notes |-> newNotes, tags |-> currentVersion.tags,
                      runes |-> newRunes, summoner_spells |-> newSummoners,
                      items |-> newItems]
       IN  IF currentVersion = Undefined
           THEN /\ calls' = <<>>
                /\ UNCHANGED <<store, clock, matchups, currentMatchup,
                               modalMatchupHidden, opened, untouched>>
           ELSE /\ IF AnythingChanged(currentVersion, newNotes, newRunes,
                                      newSummoners, newItems)
                   THEN /\ store' = StoreUpdate(currentMatchup.id, update)
                        /\ clock' = clock + 1
                        /\ calls' = <<Call("update_matchup",
                                           [id |-> currentMatchup.id, update |-> update]),
                                      Call("get_matchups", [filter |-> Null])>>
                   ELSE /\ UNCHANGED <<store, clock>>
                        /\ calls' = <<Call("get_matchups", [filter |-> Null])>>
                /\ CloseDetail
                /\ matchups' = StoreList(store')
    /\ lastOp' = Op("saveMatchup", [id |-> currentMatchup.id, untouched |-> untouched])
    /\ UNCHANGED <<modalNewHidden, detailVars, inputNewTag, pure, loadVars>>

\* deleteMatchup: the delete button, and the answer to confirm()
DeleteMatchup(confirmed) ==
    /\ modalMatchupHidden = FALSE
    /\ IF ~confirmed
       THEN /\ calls' = <<>>
            /\ UNCHANGED <<store, matchups, currentMatchup, modalMatchupHidden,
                           opened, untouched>>
       ELSE /\ store' = StoreDelete(currentMatchup.id)
            /\ calls' = <<Call("delete_matchup", [id |-> currentMatchup.id]),
                          Call("get_matchups", [filter |-> Null])>>
            /\ CloseDetail
            /\ matchups' = StoreList(store')
    /\ lastOp' = Op("deleteMatchup", [confirmed |-> confirmed])
    /\ UNCHANGED <<clock, modalNewHidden, detailVars, inputNewTag, pure, loadVars>>

(* --------------------------- new-matchup modal ------------------------- *)

\* openNewMatchupModal
OpenNewMatchupModal ==
    /\ modalNewHidden' = FALSE
    /\ lastOp' = Op("openNewMatchupModal", NoArg)
    /\ calls' = <<>>
    /\ UNCHANGED <<store, clock, matchups, currentMatchup, modalMatchupHidden,
                   detailVars, inputNewTag, opened, untouched, pure, loadVars>>

\* closeNewMatchupModal
CloseNewMatchupModal ==
    /\ modalNewHidden = FALSE
    /\ modalNewHidden' = TRUE
    /\ lastOp' = Op("closeNewMatchupModal", NoArg)
    /\ calls' = <<>>
    /\ UNCHANGED <<store, clock, matchups, currentMatchup, modalMatchupHidden,
                   detailVars, inputNewTag, opened, untouched, pure, loadVars>>

\* if (!myChampion && !enemyChampion)
MissingBoth(myChampion, enemyChampion) ==
    myChampion = <<>> /\ enemyChampion = <<>>

\* if (!myChampion || !enemyChampion)
MissingChampion(myChampion, enemyChampion) ==
    myChampion = <<>> \/ enemyChampion = <<>>

\* createMatchup: the create button, with the values of the modal's inputs
CreateMatchup(my, enemy, role) ==
    /\ modalNewHidden = FALSE
    /\ LET myChampion == Trim(my)
           enemyChampion == Trim(enemy)
           newMatchup == [my_champion |-> myChampion,
                          enemy_champion |-> enemyChampion, role |-> role]
       IN  IF MissingChampion(myChampion, enemyChampion)
           THEN /\ calls' = <<>>
                /\ UNCHANGED <<store, clock, matchups, modalNewHidden>>
           ELSE /\ LET id == CHOOSE i \in FreeIds : \A j \in FreeIds : i <= j
                   IN  store' = StoreCreate(id, newMatchup)
                /\ clock' = clock + 1
                /\ calls' = <<Call("create_matchup", [matchup |-> newMatchup]),
                              Call("get_matchups", [filter |-> Null])>>
                /\ modalNewHidden' = TRUE
                /\ matchups' = StoreList(store')
    /\ lastOp' = Op("createMatchup", NoArg)
    /\ UNCHANGED <<currentMatchup, modalMatchupHidden, detailVars, inputNewTag, opened,
                   untouched, pure, loadVars>>

(* ----------------------------- list loading ---------------------------- *)

\* The values of the filter selects and of the search input.
FilterChampions ==
    {<<>>, <<"G">>}

FilterRoles ==
    {"", "mid"}

SearchTexts ==
    {<<>>, <<"x">>}

\* buildFilter(): the filter fields that are set, null when none is.  A field
\* that is left out is held empty here.
buildFilter(f) ==
    IF /\ f.myChampion = <<>>
       /\ f.enemyChampion = <<>>
       /\ f.role = ""
       /\ f.search = <<>>
    THEN Null
    ELSE [my_champion |-> f.myChampion, enemy_champion |-> f.enemyChampion,
          role |-> f.role, search |-> f.search]

\* get_matchups: the stored matchups that satisfy every field the filter sets.
MatchesFilter(m, filter) ==
    \/ filter = Null
    \/ /\ filter.my_champion \in {<<>>, m.my_champion}
       /\ filter.enemy_champion \in {<<>>, m.enemy_champion}
       /\ filter.role \in {"", m.role}
       /\ filter.search \in {<<>>, m.my_champion, m.enemy_champion}

StoreFilter(st, filter) ==
    SelectSeq(StoreList(st), LAMBDA m : MatchesFilter(m, filter))

\* loadMatchups up to its await: the filter is built and get_matchups invoked.
LoadMatchupsInvoke(f) ==
    /\ pending' = Append(pending, [filter |-> buildFilter(f)])
    /\ calls' = <<Call("get_matchups", [filter |-> buildFilter(f)])>>

\* handleSearch(e): the search input holds text
HandleSearch(text) ==
    /\ text # filters.search
    /\ filters' = [filters EXCEPT !.search = text]
    /\ LoadMatchupsInvoke(filters')
    /\ lastOp' = Op("handleSearch", NoArg)
    /\ UNCHANGED <<store, clock, matchups, currentMatchup, modalMatchupHidden,
                   modalNewHidden, detailVars, inputNewTag, opened, untouched, pure>>

\* handleFilterChange(): one of the three filter selects was changed
HandleFilterChange(my, enemy, role) ==
    /\ Cardinality({k \in 1..3 :
                       <<my, enemy, <<role>> >>[k]
                           # <<filters.myChampion, filters.enemyChampion,
                               <<filters.role>> >>[k]}) = 1
    /\ filters' = [filters EXCEPT !.myChampion = my, !.enemyChampion = enemy,
                                  !.role = role]
    /\ LoadMatchupsInvoke(filters')
    /\ lastOp' = Op("handleFilterChange", NoArg)
    /\ UNCHANGED <<store, clock, matchups, currentMatchup, modalMatchupHidden,
                   modalNewHidden, detailVars, inputNewTag, opened, untouched, pure>>

\* loadMatchups() with the filters as they are: the reload that ends
\* saveMatchup, createMatchup and deleteMatchup.
ReloadMatchups ==
    /\ filters' = filters
    /\ LoadMatchupsInvoke(filters)
    /\ lastOp' = Op("reload", NoArg)
    /\ UNCHANGED <<store, clock, matchups, currentMatchup, modalMatchupHidden,
                   modalNewHidden, detailVars, inputNewTag, opened, untouched, pure>>

\* loadMatchups after its await: the i-th invocation in flight resolves and
\* its result is assigned to state.matchups, whatever was invoked since.
LoadMatchupsResolve(i) ==
    /\ i \in 1..Len(pending)
    /\ matchups' = StoreFilter(store, pending[i].filter)
    /\ pending' = SubSeq(pending, 1, i - 1) \o SubSeq(pending, i + 1, Len(pending))
    /\ lastOp' = Op("loadMatchups", NoArg)
    /\ UNCHANGED <<store, clock, currentMatchup, modalMatchupHidden, modalNewHidden,
                   detailVars, inputNewTag, opened, untouched, calls, pure, filters>>

(* ------------------------ parsing, on its own -------------------------- *)

RawAlphabet ==
    {"a", "b", ",", " "}

RawTexts ==
    SeqsUpTo(RawAlphabet, MaxRawLen)

PureTagSet ==
    {<<"a">>, <<"b">>}

PureTagLists ==
    SeqsUpTo(PureTagSet, MaxPureTags)

\* newRunes = parseCommaSeparated(elements.detailRunes.value)
PureParse ==
    /\ pure.op = "input"
    /\ pure' = [op |-> "parse", raw |-> pure.raw, list |-> parseCommaSeparated(pure.raw)]
    /\ UNCHANGED <<store, clock, matchups, currentMatchup, modalMatchupHidden,
                   modalNewHidden, detailVars, inputNewTag, opened, untouched,
                   lastOp, calls, loadVars>>

\* elements.detailRunes.value = currentVersion?.runes?.join(', ') || ''
PureRender ==
    /\ pure.op = "parse"
    /\ pure' = [op |-> "render", raw |-> pure.raw, list |-> pure.list,
                text |-> RenderList(pure.list)]
    /\ UNCHANGED <<store, clock, matchups, currentMatchup, modalMatchupHidden,
                   modalNewHidden, detailVars, inputNewTag, opened, untouched,
                   lastOp, calls, loadVars>>

\* parseCommaSeparated of the rendered text, at the next save
PureReparse ==
    /\ pure.op = "render"
    /\ pure' = [op |-> "reparse", raw |-> pure.raw, list |-> pure.list,
                text |-> pure.text, again |-> parseCommaSeparated(pure.text)]
    /\ UNCHANGED <<store, clock, matchups, currentMatchup, modalMatchupHidden,
                   modalNewHidden, detailVars, inputNewTag, opened, untouched,
                   lastOp, calls, loadVars>>

\* currentVersion.tags = currentVersion.tags.filter(t => t !== tag)
PureRemoveTag ==
    /\ pure.op = "tags"
    /\ pure' = [op |-> "removed", tags |-> pure.tags, tag |-> pure.tag,
                out |-> FilterTag(pure.tags, pure.tag)]
    /\ UNCHANGED <<store, clock, matchups, currentMatchup, modalMatchupHidden,
                   modalNewHidden, detailVars, inputNewTag, opened, untouched,
                   lastOp, calls, loadVars>>

(* ---------------------------- specifications --------------------------- *)

\* The whole frontend.  The bounds stop a create, and a save of a session in
\* which the user did something, once MaxClock versions exist.
Next ==
    \/ OpenNewMatchupModal
    \/ CloseNewMatchupModal
    \/ /\ clock < MaxClock
       /\ FreeIds # {}
       /\ \E my, enemy \in ChampionTexts, role \in Roles : CreateMatchup(my, enemy, role)
    \/ \E id \in MatchupIds : OpenMatchupDetail(id)
    \/ CloseMatchupModal
    \/ HandleEscape
    \/ \E text \in NoteTexts : TypeNotes(text)
    \/ \E text \in RuneTexts : TypeRunes(text)
    \/ \E text \in SummonerTexts : TypeSummoners(text)
    \/ \E text \in ItemTexts : TypeItems(text)
    \/ \E raw \in TagTexts : HandleAddTag(raw)
    \/ \E i \in 1..Len(detailTags) : RemoveTag(detailTags[i])
    \/ \E versionNum \in VersionOptions : HandleVersionChange(versionNum)
    \/ /\ untouched \/ clock < MaxClock
       /\ SaveMatchup
    \/ \E confirmed \in BOOLEAN : DeleteMatchup(confirmed)

Spec ==
    Init /\ [][Next]_vars

\* The matchup store's life cycle: every handler, the user editing notes and
\* tags only.
NextStore ==
    \/ OpenNewMatchupModal
    \/ CloseNewMatchupModal
    \/ /\ clock < MaxClock
       /\ FreeIds # {}
       /\ \E my, enemy \in ChampionTexts, role \in Roles : CreateMatchup(my, enemy, role)
    \/ \E id \in MatchupIds : OpenMatchupDetail(id)
    \/ CloseMatchupModal
    \/ HandleEscape
    \/ \E text \in NoteTexts : TypeNotes(text)
    \/ \E raw \in TagTexts : HandleAddTag(raw)
    \/ \E i \in 1..Len(detailTags) : RemoveTag(detailTags[i])
    \/ \E versionNum \in VersionOptions : HandleVersionChange(versionNum)
    \/ /\ untouched \/ clock < MaxClock
       /\ SaveMatchup
    \/ \E confirmed \in BOOLEAN : DeleteMatchup(confirmed)

SpecStore ==
    Init /\ [][NextStore]_vars

\* Edit sessions on one matchup: the state after the first createMatchup, then
\* the detail modal's handlers with all five fields edited.
InitEdit ==
    /\ store = [i \in MatchupIds |->
                  IF i = 1
                  THEN [id |-> 1, my_champion |-> <<"G">>, enemy_champion |-> <<"G">>,
                        role |-> "top", versions |-> <<EmptyVersion(1)>>,
                        current_version |-> 1]
                  ELSE Null]
    /\ clock = 1
    /\ matchups = StoreList(store)
    /\ currentMatchup = Null
    /\ modalMatchupHidden = TRUE
    /\ modalNewHidden = TRUE
    /\ detailNotes = ""
    /\ detailRunes = <<>>
    /\ detailSummoners = <<>>
    /\ detailItems = <<>>
    /\ detailTags = <<>>
    /\ detailVersion = 0
    /\ inputNewTag = <<>>
    /\ opened = Null
    /\ untouched = FALSE
    /\ lastOp = Op("createMatchup", NoArg)
    /\ calls = <<Call("create_matchup",
                      [matchup |-> [my_champion |-> <<"G">>,
                                    enemy_champion |-> <<"G">>, role |-> "top"]]),
                 Call("get_matchups", [filter |-> Null])>>
    /\ pure = PureIdle
    /\ filters = NoFilters
    /\ pending = <<>>

NextEdit ==
    \/ \E id \in MatchupIds : OpenMatchupDetail(id)
    \/ CloseMatchupModal
    \/ \E text \in NoteTexts : TypeNotes(text)
    \/ \E text \in RuneTexts : TypeRunes(text)
    \/ \E text \in SummonerTexts : TypeSummoners(text)
    \/ \E text \in ItemTexts : TypeItems(text)
    \/ \E raw \in TagTexts : HandleAddTag(raw)
    \/ \E i \in 1..Len(detailTags) : RemoveTag(detailTags[i])
    \/ \E versionNum \in VersionOptions : HandleVersionChange(versionNum)
    \/ /\ untouched \/ clock < MaxClock
       /\ SaveMatchup

SpecEdit ==
    InitEdit /\ [][NextEdit]_vars

\* The version selector's handler on every index from 0 to one past the last
\* version, on the matchup of InitEdit with notes and tags edited and saved.
SelectorValues ==
    IF currentMatchup = Null THEN {} ELSE 0..(Len(currentMatchup.versions) + 1)

NextSelect ==
    \/ \E id \in MatchupIds : OpenMatchupDetail(id)
    \/ CloseMatchupModal
    \/ \E text \in NoteTexts : TypeNotes(text)
    \/ \E raw \in TagTexts : HandleAddTag(raw)
    \/ \E versionNum \in SelectorValues : HandleVersionChange(versionNum)
    \/ /\ untouched \/ clock < MaxClock
       /\ SaveMatchup

SpecSelect ==
    InitEdit /\ [][NextSelect]_vars

\* A matchup handed over by get_matchup whose current_version indexes no
\* version, the case openMatchupDetail's "|| matchup.versions[0]" provides
\* for: one version, with notes and a tag, and a pointer of 0 or 2.
StalePointers ==
    {0, 2}

StaleMatchup(pointer) ==
    [id |-> 1, my_champion |-> <<"G">>, enemy_champion |-> <<"G">>, role |-> "top",
     versions |-> << [EmptyVersion(1) EXCEPT !.notes = "n", !.tags = << <<"a">> >>] >>,
     current_version |-> pointer]

InitStale ==
    /\ \E pointer \in StalePointers :
          store = [i \in MatchupIds |-> IF i = 1 THEN StaleMatchup(pointer) ELSE Null]
    /\ clock = 1
    /\ matchups = StoreList(store)
    /\ currentMatchup = Null
    /\ modalMatchupHidden = TRUE
    /\ modalNewHidden = TRUE
    /\ detailNotes = ""
    /\ detailRunes = <<>>
    /\ detailSummoners = <<>>
    /\ detailItems = <<>>
    /\ detailTags = <<>>
    /\ detailVersion = 0
    /\ inputNewTag = <<>>
    /\ opened = Null
    /\ untouched = FALSE
    /\ lastOp = Op("init", NoArg)
    /\ calls = <<Call("get_matchups", [filter |-> Null])>>
    /\ pure = PureIdle
    /\ filters = NoFilters
    /\ pending = <<>>

NextStale ==
    \/ \E id \in MatchupIds : OpenMatchupDetail(id)
    \/ CloseMatchupModal
    \/ \E text \in NoteTexts : TypeNotes(text)
    \/ \E text \in RuneTexts : TypeRunes(text)
    \/ \E raw \in TagTexts : HandleAddTag(raw)
    \/ \E i \in 1..Len(detailTags) : RemoveTag(detailTags[i])
    \/ \E versionNum \in VersionOptions : HandleVersionChange(versionNum)
    \/ /\ untouched \/ clock < MaxClock
       /\ SaveMatchup

SpecStale ==
    InitStale /\ [][NextStale]_vars

\* Browsing and saving with two versions in the store: the state after the
\* matchup of InitEdit was opened, given the tag "a" and the notes "n", and
\* saved; then the detail modal's handlers, with one more version to save.
InitBrowse ==
    /\ store = [i \in MatchupIds |->
                  IF i = 1
                  THEN [id |-> 1, my_champion |-> <<"G">>, enemy_champion |-> <<"G">>,
                        role |-> "top",
                        versions |-> <<EmptyVersion(1),
                                       [EmptyVersion(2) EXCEPT !.notes = "n",
                                                               !.tags = << <<"a">> >>]>>,
                        current_version |-> 2]
                  ELSE Null]
    /\ clock = 2
    /\ matchups = StoreList(store)
    /\ currentMatchup = Null
    /\ modalMatchupHidden = TRUE
    /\ modalNewHidden = TRUE
    /\ detailNotes = "n"
    /\ detailRunes = <<>>
    /\ detailSummoners = <<>>
    /\ detailItems = <<>>
    /\ detailTags = << <<"a">> >>
    /\ detailVersion = 1
    /\ inputNewTag = <<>>
    /\ opened = Null
    /\ untouched = FALSE
    /\ lastOp = Op("saveMatchup", [id |-> 1, untouched |-> FALSE])
    /\ calls = <<Call("update_matchup",
                      [id |-> 1,
                       update |-> [notes |-> "n", tags |-> << <<"a">> >>, runes |-> <<>>,
                                   summoner_spells |-> <<>>, items |-> <<>>]]),
                 Call("get_matchups", [filter |-> Null])>>
    /\ pure = PureIdle
    /\ filters = NoFilters
    /\ pending = <<>>

NextBrowse ==
    \/ \E id \in MatchupIds : OpenMatchupDetail(id)
    \/ CloseMatchupModal
    \/ \E text \in NoteTexts : TypeNotes(text)
    \/ \E raw \in TagTexts : HandleAddTag(raw)
    \/ \E i \in 1..Len(detailTags) : RemoveTag(detailTags[i])
    \/ \E versionNum \in VersionOptions : HandleVersionChange(versionNum)
    \/ /\ untouched \/ clock < MaxClock + 1
       /\ SaveMatchup

SpecBrowse ==
    InitBrowse /\ [][NextBrowse]_vars

\* List loading on the store of InitEdit: searches, filter changes and
\* reloads invoke get_matchups, up to MaxPending at once, and the invocations
\* resolve in any order.
NextLoad ==
    \/ /\ Len(pending) < MaxPending
       /\ \/ \E text \in SearchTexts : HandleSearch(text)
          \/ \E my, enemy \in FilterChampions, role \in FilterRoles :
                HandleFilterChange(my, enemy, role)
          \/ ReloadMatchups
    \/ \E i \in 1..MaxPending : LoadMatchupsResolve(i)

SpecLoad ==
    InitEdit /\ [][NextLoad]_vars

\* Tag editing on the matchup of InitEdit: every text of up to MaxTagLen
\* characters is entered into the tag input, up to MaxTags tags a list.
CurrentTags ==
    IF currentMatchup = Null THEN <<>> ELSE TagsOf(IndexedVersion(currentMatchup))

NextTags ==
    \/ \E id \in MatchupIds : OpenMatchupDetail(id)
    \/ \E raw \in TagInputs : TypeTag(raw)
    \/ /\ Len(CurrentTags) < MaxTags \/ Includes(CurrentTags, NormalizeTag(inputNewTag))
       /\ HandleAddTag(inputNewTag)
    \/ \E i \in 1..Len(detailTags) : RemoveTag(detailTags[i])

SpecTags ==
    InitEdit /\ [][NextTags]_vars

\* parseCommaSeparated, the rendering of a list and the tag filter, applied to
\* every input within the bounds.
InitPure ==
    /\ store = [i \in MatchupIds |-> Null]
    /\ clock = 0
    /\ matchups = <<>>
    /\ currentMatchup = Null
    /\ modalMatchupHidden = TRUE
    /\ modalNewHidden = TRUE
    /\ detailNotes = ""
    /\ detailRunes = <<>>
    /\ detailSummoners = <<>>
    /\ detailItems = <<>>
    /\ detailTags = <<>>
    /\ detailVersion = 0
    /\ inputNewTag = <<>>
    /\ opened = Null
    /\ untouched = FALSE
    /\ lastOp = Op("init", NoArg)
    /\ calls = <<>>
    /\ pure \in {[op |-> "input", raw |-> r] : r \in RawTexts}
            \cup {[op |-> "tags", tags |-> l, tag |-> t] :
                      l \in PureTagLists, t \in PureTagSet}
    /\ filters = NoFilters
    /\ pending = <<>>

NextPure ==
    \/ PureParse
    \/ PureRender
    \/ PureReparse
    \/ PureRemoveTag

SpecPure ==
    InitPure /\ [][NextPure]_vars

(* ------------------------------- claims -------------------------------- *)

\* The k-th smallest element of a finite set of numbers.
Nth(S, k) ==
    CHOOSE x \in S : Cardinality({y \in S : y <= x}) = k

\* The elements of seq at the positions in keep, in their order.
Pick(seq, keep) ==
    [j \in 1..Cardinality(keep) |-> seq[Nth(keep, j)]]

\* A piece of text without the blanks before its first and after its last
\* non-blank character.
Stripped(piece) ==
    LET ink == {i \in 1..Len(piece) : piece[i] # " "}
    IN  IF ink = {} THEN <<>>
        ELSE SubSeq(piece, Nth(ink, 1), Nth(ink, Cardinality(ink)))

\* The text between the (k-1)-th and the k-th comma of raw.
PieceAt(raw, k) ==
    LET cuts == {0, Len(raw) + 1} \cup {i \in 1..Len(raw) : raw[i] = ","}
    IN  SubSeq(raw, Nth(cuts, k) + 1, Nth(cuts, k + 1) - 1)

\* The stripped, non-empty pieces of raw, from left to right.
ExpectedPieces(raw) ==
    LET n == Cardinality({i \in 1..Len(raw) : raw[i] = ","}) + 1
        stripped == [k \in 1..n |-> Stripped(PieceAt(raw, k))]
    IN  Pick(stripped, {k \in 1..n : stripped[k] # <<>>})

\* C8: removeTag's filter removes every occurrence of exactly the given tag,
\* keeps the other tags in their order, and changes nothing when the tag is
\* absent.
C8_RemoveTagFilters ==
    pure.op = "removed" =>
        /\ pure.out = Pick(pure.tags, {i \in 1..Len(pure.tags) : pure.tags[i] # pure.tag})
        /\ \A i \in 1..Len(pure.out) : pure.out[i] # pure.tag
        /\ (\A i \in 1..Len(pure.tags) : pure.tags[i] # pure.tag) => pure.out = pure.tags

C8_Witness ==
    /\ pure.op = "removed"
    /\ pure.tags = << <<"a">>, <<"b">>, <<"a">> >>
    /\ pure.tag = <<"a">>
    /\ pure.out = << <<"b">> >>

\* C9: parseCommaSeparated returns the comma-separated pieces of its input,
\* each trimmed, the pieces that are empty after trimming dropped, in their
\* order; blank input gives the empty list; "a,, b ," gives ["a", "b"].
C9_ParseContract ==
    /\ pure.op = "parse" =>
          /\ pure.list = ExpectedPieces(pure.raw)
          /\ (\A i \in 1..Len(pure.raw) : pure.raw[i] = " ") => pure.list = <<>>
          /\ parseCommaSeparated(<<"a", ",", ",", " ", "b", " ", ",">>)
                = << <<"a">>, <<"b">> >>

C9_Witness ==
    /\ pure.op = "parse"
    /\ pure.raw = <<"a", ",", ",", " ", "b">>
    /\ pure.list = << <<"a">>, <<"b">> >>

\* C10: parsing a raw text, rendering the list with join(", ") and parsing the
\* rendered text gives the list of the first parse.
C10_RoundTrip ==
    pure.op = "reparse" => pure.again = pure.list

C10_Witness ==
    /\ pure.op = "reparse"
    /\ pure.raw = <<"a", " ", ",", "b", "b">>
    /\ pure.text = <<"a", ",", " ", "b", "b">>
    /\ pure.again = << <<"a">>, <<"b", "b">> >>

NoDuplicates(tags) ==
    \A i, j \in 1..Len(tags) : tags[i] = tags[j] => i = j

\* The tag a raw text stands for: from its first to its last non-blank
\* character, letters in lower case, one hyphen for every run of blanks.
ExpectedTag(raw) ==
    LET ink == {i \in 1..Len(raw) : raw[i] # " "}
        keep == {i \in 1..Len(raw) :
                    /\ ink # {}
                    /\ Nth(ink, 1) <= i
                    /\ i <= Nth(ink, Cardinality(ink))
                    /\ (raw[i] # " " \/ raw[i - 1] # " ")}
    IN  [j \in 1..Cardinality(keep) |->
            LET c == raw[Nth(keep, j)]
            IN  IF c = " " THEN "-" ELSE IF c = "A" THEN "a" ELSE c]

Occurrences(tags, tag) ==
    Cardinality({i \in 1..Len(tags) : tags[i] = tag})

\* A step of handleAddTag that reads the tag input.
AddTagStep ==
    /\ lastOp'.name = "handleAddTag"
    /\ HandleAddTag(inputNewTag)

\* C6: no step that changes the current version's tag list or the rendered
\* tag list leaves a tag twice in it, and Enter on a text whose tag is already
\* in the list leaves the list as it is.
C6_IdempotentTagAdd ==
    [][/\ detailTags' # detailTags => NoDuplicates(detailTags')
       /\ currentMatchup' # currentMatchup => NoDuplicates(CurrentTags')
       /\ (AddTagStep /\ Includes(CurrentTags, ExpectedTag(inputNewTag)))
             => CurrentTags' = CurrentTags]_vars

C6_Witness ==
    /\ lastOp = Op("handleAddTag", [outcome |-> "present"])
    /\ Len(CurrentTags) = 2
    /\ detailTags = CurrentTags

\* C7: Enter on a blank text leaves the tag list unchanged; on any other text
\* the list afterwards holds the text's tag exactly once, appended at the end
\* when it was not in the list, the other tags keeping their places.
C7_TagNormalization ==
    [][AddTagStep =>
          LET tag == ExpectedTag(inputNewTag)
          IN  IF tag = <<>>
              THEN CurrentTags' = CurrentTags /\ detailTags' = detailTags
              ELSE /\ CurrentTags' = IF Includes(CurrentTags, tag)
                                     THEN CurrentTags ELSE Append(CurrentTags, tag)
                   /\ Occurrences(CurrentTags', tag) = 1]_vars

C7_Witness ==
    /\ lastOp = Op("handleAddTag", [outcome |-> "pushed"])
    /\ CurrentTags = << <<"a">>, <<"a", "-", "a", "a">> >>
    /\ detailTags = CurrentTags

\* The last handler invoked update_matchup.
UpdateCalled ==
    \E i \in 1..Len(calls) : calls[i].cmd = "update_matchup"

\* C1: a save right after the open, with nothing typed, tagged or browsed in
\* between, invokes no update_matchup and leaves the store as it is.
C1_NoOpSave ==
    [][(untouched /\ SaveMatchup) => (~UpdateCalled' /\ store' = store)]_vars

C1_Witness ==
    /\ lastOp.name = "saveMatchup"
    /\ lastOp.arg.untouched
    /\ calls = <<Call("get_matchups", [filter |-> Null])>>
    /\ store[1].current_version = 2
    /\ store[1].versions[2].runes = << <<"a">>, <<"b">> >>
    /\ store[1].versions[2].tags = << <<"a">> >>

\* The edited values of the open session differ from the active version as
\* it was when the matchup was opened.
EditedFieldsDiffer ==
    LET base == ActiveVersion(opened)
    IN  \/ detailNotes # base.notes
        \/ CurrentTags # base.tags
        \/ ExpectedPieces(detailRunes) # base.runes
        \/ ExpectedPieces(detailSummoners) # base.summoner_spells
        \/ ExpectedPieces(detailItems) # base.items

\* C2: a save with any of the five fields differing from the opened active
\* version invokes update_matchup, and the matchup then has one version more,
\* holding the edited values, with current_version pointing at it.
C2_VersionBumpOnAnyChange ==
    [][(SaveMatchup /\ EditedFieldsDiffer) =>
          LET id == currentMatchup.id
              n == Len(store[id].versions) + 1
          IN  /\ UpdateCalled'
              /\ Len(store'[id].versions) = n
              /\ store'[id].current_version = n
              /\ store'[id].versions[n].notes = detailNotes
              /\ store'[id].versions[n].tags = CurrentTags
              /\ store'[id].versions[n].runes = ExpectedPieces(detailRunes)
              /\ store'[id].versions[n].summoner_spells = ExpectedPieces(detailSummoners)
              /\ store'[id].versions[n].items = ExpectedPieces(detailItems)]_vars

\* C3: no step changes a version that is already in a matchup's versions
\* sequence, in the store or in the open matchup.
C3_HistoryImmutable ==
    [][/\ \A id \in MatchupIds :
             (store[id] # Null /\ store'[id] # Null) =>
                 \A i \in 1..Len(store[id].versions) :
                     /\ i <= Len(store'[id].versions)
                     /\ store'[id].versions[i] = store[id].versions[i]
       /\ (/\ currentMatchup # Null
           /\ currentMatchup' # Null
           /\ ~(\E id \in MatchupIds : OpenMatchupDetail(id))) =>
                 \A i \in 1..Len(currentMatchup.versions) :
                     /\ i <= Len(currentMatchup'.versions)
                     /\ currentMatchup'.versions[i] = currentMatchup.versions[i]]_vars

\* A step of saveMatchup.
SaveStep ==
    /\ lastOp'.name = "saveMatchup"
    /\ SaveMatchup

\* A step of handleVersionChange.
BrowseStep ==
    /\ lastOp'.name = "handleVersionChange"
    /\ HandleVersionChange(detailVersion')

\* C4: a step that is not a save (an open, a close, a change of the version
\* selector, a tag added or removed, a text typed) invokes no update_matchup
\* and changes neither the store nor the open matchup's current_version and
\* number of versions; the version selector shows the selected version's
\* fields.
C4_OnlySaveMutatesHistory ==
    [][/\ ~SaveStep =>
             /\ calls' # calls => ~UpdateCalled'
             /\ store' = store
             /\ currentMatchup' # Null =>
                   /\ currentMatchup'.current_version
                         = store[currentMatchup'.id].current_version
                   /\ Len(currentMatchup'.versions)
                         = Len(store[currentMatchup'.id].versions)
       /\ BrowseStep =>
             LET versionNum == detailVersion'
                 version == currentMatchup.versions[versionNum]
             IN  /\ detailNotes' = version.notes
                 /\ detailTags' = version.tags
                 /\ ExpectedPieces(detailRunes') = version.runes
                 /\ ExpectedPieces(detailSummoners') = version.summoner_spells
                 /\ ExpectedPieces(detailItems') = version.items
                 /\ versionNum # currentMatchup.current_version =>
                       version = store[currentMatchup.id].versions[versionNum]]_vars

C4_Witness ==
    /\ lastOp.name = "handleVersionChange"
    /\ lastOp.arg.versionNum = 1
    /\ currentMatchup.current_version = 2
    /\ store[currentMatchup.id].current_version = 2
    /\ detailVersion = 1
    /\ currentMatchup.versions[2].notes = "n"
    /\ currentMatchup.versions[2].runes = << <<"a">>, <<"b">> >>
    /\ detailNotes = ""
    /\ detailRunes = <<>>

InRange(m) ==
    /\ Len(m.versions) >= 1
    /\ 1 <= m.current_version
    /\ m.current_version <= Len(m.versions)

\* C5: every matchup, in the store, in the loaded list and in the open detail
\* modal, has at least one version and a current_version between 1 and the
\* number of its versions.
C5_CurrentVersionInRange ==
    /\ \A id \in MatchupIds : store[id] # Null => InRange(store[id])
    /\ \A i \in 1..Len(matchups) : InRange(matchups[i])
    /\ currentMatchup # Null => InRange(currentMatchup)

C5_Witness ==
    /\ lastOp.name = "deleteMatchup"
    /\ lastOp.arg.confirmed = FALSE
    /\ currentMatchup # Null
    /\ currentMatchup.current_version = 2
    /\ Len(currentMatchup.versions) = 2
    /\ detailVersion = 1

\* A step of handleVersionChange on an index that is no option of the
\* selector: less than 1, or greater than the number of versions.
OutOfRangeStep ==
    /\ BrowseStep
    /\ detailVersion' \notin 1..Len(currentMatchup.versions)

PointerOutOfRange ==
    /\ currentMatchup # Null
    /\ currentMatchup.current_version \notin 1..Len(currentMatchup.versions)

\* C12: with a current_version that indexes no version, every handler works
\* on the first version: openMatchupDetail displays it, handleAddTag appends
\* the tag to its tags and renders them, removeTag takes the tag out of its
\* tags, and saveMatchup compares with it and saves what differs.
C12_FallbackToFirstVersion ==
    [][/\ \A id \in MatchupIds :
             (OpenMatchupDetail(id) /\ PointerOutOfRange') =>
                 /\ detailNotes' = currentMatchup'.versions[1].notes
                 /\ detailTags' = currentMatchup'.versions[1].tags
       /\ PointerOutOfRange =>
             /\ \A raw \in TagTexts :
                   (lastOp'.name = "handleAddTag" /\ HandleAddTag(raw)) =>
                       /\ currentMatchup' # Null
                       /\ Includes(currentMatchup'.versions[1].tags, ExpectedTag(raw))
                       /\ detailTags' = currentMatchup'.versions[1].tags
             /\ \A i \in 1..Len(detailTags) :
                   (lastOp'.name = "removeTag" /\ RemoveTag(detailTags[i])) =>
                       /\ ~Includes(currentMatchup'.versions[1].tags, detailTags[i])
                       /\ detailTags' = currentMatchup'.versions[1].tags
             /\ (SaveStep /\ detailNotes # currentMatchup.versions[1].notes) =>
                   UpdateCalled']_vars

\* The text has a character that is not a blank.
HasInk(text) ==
    \E i \in 1..Len(text) : text[i] # " "

\* The last handler invoked create_matchup.
CreateCalled ==
    \E i \in 1..Len(calls) : calls[i].cmd = "create_matchup"

\* C13: a click on create with both champion inputs holding more than blanks
\* invokes create_matchup with the trimmed names; with either input empty or
\* blank it invokes nothing, leaves the new-matchup modal open and leaves
\* the matchup list and the store as they are.
C13_CreationValidation ==
    [][\A my, enemy \in ChampionTexts, role \in Roles :
          (lastOp'.name = "createMatchup" /\ CreateMatchup(my, enemy, role)) =>
              IF HasInk(my) /\ HasInk(enemy)
              THEN /\ CreateCalled'
                   /\ calls'[1].arg.matchup.my_champion = Stripped(my)
                   /\ calls'[1].arg.matchup.enemy_champion = Stripped(enemy)
              ELSE /\ calls' = <<>>
                   /\ modalNewHidden' = FALSE
                   /\ matchups' = matchups
                   /\ store' = store]_vars

C13_Witness ==
    /\ lastOp.name = "createMatchup"
    /\ calls = <<>>
    /\ modalNewHidden = FALSE
    /\ matchups = <<>>
    /\ \A id \in MatchupIds : store[id] = Null

\* The displayed fields differ from the fields of the version the selector
\* shows.
DisplayedDiffers ==
    LET shown == currentMatchup.versions[detailVersion]
    IN  \/ detailNotes # shown.notes
        \/ detailTags # shown.tags
        \/ ExpectedPieces(detailRunes) # shown.runes
        \/ ExpectedPieces(detailSummoners) # shown.summoner_spells
        \/ ExpectedPieces(detailItems) # shown.items

\* C14: a save that invokes update_matchup sends the tags rendered in the
\* detail modal, and a save invokes update_matchup exactly when a displayed
\* field differs from the version the selector shows.
C14_SavedTagsAreDisplayed ==
    [][SaveStep =>
          /\ UpdateCalled' => calls'[1].arg.update.tags = detailTags
          /\ UpdateCalled' <=> DisplayedDiffers]_vars

\* C15: once no get_matchups invocation is in flight, state.matchups is the
\* store's answer to the filter built from the filters as they are now, the
\* filter of the invocation issued last.
C15_NoStaleList ==
    pending = <<>> => matchups = StoreFilter(store, buildFilter(filters))

====
